---------------------------- MODULE Spec2Model ----------------------------
(***************************************************************************)
(* cargo-hack: the feature-combination enumerator (powerset), the          *)
(* execution planner (determine_package_list / determine_kind), the        *)
(* sequential driver (exec_on_workspace / exec_on_package / exec_actual /  *)
(* exec_cargo) and the manifest backup/restore guard with its              *)
(* interruption handler.                                                   *)
(***************************************************************************)
EXTENDS Integers, Sequences, FiniteSets, TLC

VARIABLES
    cx,         \* the Context: parsed flags and workspace metadata
    pc,         \* position of the main thread
    plan,       \* Vec<(&PackageId, Kind)> returned by determine_package_list
    idx,        \* index of the plan entry try_for_each is at
    pos,        \* position inside exec_actual: [stage, i]
    progress,   \* Progress { total, count }
    log,        \* build invocations attempted so far, in order
    err,        \* the Err(..) try_main returns, <<>> while there is none
    exit_code,  \* status the process ended with, <<>> while it runs
    disk,       \* bytes of every manifest file on disk
    current,    \* Restore.current: the single slot of the held backup
    handle,     \* the Handle exec_on_package owns, <<>> when it owns none
    sig,        \* the interruption handler's thread
    hist,       \* what happened to the manifests: a record of counters
    ps          \* the fold of powerset: [xs, depth, rest, acc]

vars == <<cx, pc, plan, idx, pos, progress, log, err, exit_code, disk,
          current, handle, sig, hist, ps>>

runVars == <<cx, pc, plan, idx, pos, progress, log, err, exit_code, disk,
             current, handle, sig, hist>>

\* Option<T>: None is <<>>, Some(v) is <<v>>.
None == <<>>
Some(v) == <<v>>
IsSome(o) == o # <<>>
Unwrap(o) == o[1]

Contains(s, x) == \E i \in 1..Len(s) : s[i] = x

RECURSIVE SeqsUpTo(_, _)
SeqsUpTo(S, n) ==
    IF n = 0 THEN {<<>>}
    ELSE LET shorter == SeqsUpTo(S, n - 1)
         IN  shorter \cup {Append(s, x) : s \in shorter, x \in S}

----------------------------------------------------------------------------
(* Bounds *)

\* longest input list given to powerset
MaxLen == 4

\* members of the workspace
NumPkgs == 2

\* lines of a generated manifest after its [package] header
MaxLines == 3

\* the values the input lists of powerset are made of
Elems == 1..4

----------------------------------------------------------------------------
(* powerset, main.rs 359-372 *)

\* curr.push(elem.clone()) for every combination of acc.clone()
Ext(acc, elem) == [k \in 1..Len(acc) |-> Append(acc[k], elem)]

\* ext.filter(|f| f.len() < depth): the off-by-one of the depth filter
DepthFilterStrict(ext, depth) ==
    LET keep(f) == Len(f) < Unwrap(depth)
    IN  SelectSeq(ext, keep)

\* ext.filter(|f| f.len() <= depth + 1): the depth filter one too generous
DepthFilterLoose(ext, depth) ==
    LET keep(f) == Len(f) <= Unwrap(depth) + 1
    IN  SelectSeq(ext, keep)

\* ext.filter(|f| f.len() <= depth)
DepthFilter(ext, depth) ==
    LET keep(f) == Len(f) <= Unwrap(depth)
    IN  SelectSeq(ext, keep)

\* the extension appended in front of the accumulated list
FoldStepPrepend(acc, elem, depth) ==
    IF IsSome(depth) THEN DepthFilter(Ext(acc, elem), depth) \o acc
    ELSE Ext(acc, elem) \o acc

\* the closure given to fold: acc.extend(ext) or acc.extend(ext.filter(..))
FoldStep(acc, elem, depth) ==
    IF IsSome(depth) THEN acc \o DepthFilter(Ext(acc, elem), depth)
    ELSE acc \o Ext(acc, elem)

RECURSIVE Fold(_, _, _)
Fold(acc, rest, depth) ==
    IF rest = <<>> THEN acc
    ELSE Fold(FoldStep(acc, Head(rest), depth), Tail(rest), depth)

\* iter.into_iter().fold(vec![vec![]], ..)
powerset(iter, depth) == Fold(<<<<>>>>, iter, depth)

----------------------------------------------------------------------------
(* Manifest, manifest.rs 11-34 and 65-76.  The bytes of a manifest file are *)
(* its lines; the parsed document keeps every line with the key path it     *)
(* sits at.                                                                 *)

KEY == "dev-dependencies"

Header(path) == [t |-> "header", path |-> path, key |-> "", val |-> ""]
\* the header of an array of tables, [[path]]
ArrayHeader(path) == [t |-> "aheader", path |-> path, key |-> "", val |-> ""]
KeyVal(key, val) == [t |-> "kv", path |-> <<>>, key |-> key, val |-> val]

\* the path of the table a line of the file is read into
RECURSIVE TableAt(_, _)
TableAt(raw, i) ==
    IF i = 0 THEN <<>>
    ELSE IF raw[i].t \in {"header", "aheader"} THEN raw[i].path
    ELSE TableAt(raw, i - 1)

\* raw.parse::<toml_edit::Document>()
Parse(raw) ==
    [i \in 1..Len(raw) |->
        IF raw[i].t = "header"
        THEN [path |-> raw[i].path, table_like |-> TRUE, line |-> raw[i]]
        ELSE IF raw[i].t = "aheader"
        THEN [path |-> raw[i].path, table_like |-> FALSE, line |-> raw[i]]
        ELSE [path |-> Append(TableAt(raw, i), raw[i].key),
              table_like |-> raw[i].val = "inline", line |-> raw[i]]]

\* doc.to_string()
DocToString(doc) == [i \in 1..Len(doc) |-> doc[i].line]

IsPrefix(p, q) == Len(p) <= Len(q) /\ SubSeq(q, 1, Len(p)) = p

\* Item::as_table_like of the item at path: a table (given by its header or
\* by the entries beneath it) or an inline table; not an array of tables
AsTableLike(doc, path) ==
    \/ \E i \in 1..Len(doc) : doc[i].path = path /\ doc[i].table_like
    \/ /\ \E i \in 1..Len(doc) :
             Len(doc[i].path) > Len(path) /\ IsPrefix(path, doc[i].path)
       /\ ~\E i \in 1..Len(doc) : doc[i].path = path /\ ~doc[i].table_like

\* table.remove(key) removing the entry only when it is a table
RemoveTablesOnly(doc, path, key) ==
    LET gone(e) == /\ IsPrefix(Append(path, key), e.path)
                   /\ AsTableLike(doc, Append(path, key))
        keep(e) == ~gone(e)
    IN  SelectSeq(doc, keep)

\* table.remove(key) on the table at path: the entry and all beneath it
Remove(doc, path, key) ==
    LET gone(e) == IsPrefix(Append(path, key), e.path)
        keep(e) == ~gone(e)
    IN  SelectSeq(doc, keep)

\* the keys of the entries directly in the table at path
ChildKeys(doc, path) ==
    {doc[i].path[Len(path) + 1] :
        i \in {j \in 1..Len(doc) :
                 Len(doc[j].path) > Len(path) /\ IsPrefix(path, doc[j].path)}}

\* the loop removing under every child of target, table-like or not
RECURSIVE RemoveUnderAny(_, _, _)
RemoveUnderAny(doc, path, keys) ==
    IF keys = {} THEN doc
    ELSE LET k == CHOOSE x \in keys : TRUE
         IN  RemoveUnderAny(Remove(doc, Append(path, k), KEY), path, keys \ {k})

RECURSIVE RemoveUnder(_, _, _)
RemoveUnder(doc, path, keys) ==
    IF keys = {} THEN doc
    ELSE LET k == CHOOSE x \in keys : TRUE
             next == IF AsTableLike(doc, Append(path, k))
                     THEN Remove(doc, Append(path, k), KEY)
                     ELSE doc
         IN  RemoveUnder(next, path, keys \ {k})

\* fn remove_dev_deps(doc: &mut toml_edit::Document), manifest.rs 65-76
remove_dev_deps(doc) ==
    LET top == Remove(doc, <<>>, KEY)
    IN  IF AsTableLike(top, <<"target">>)
        THEN RemoveUnder(top, <<"target">>, ChildKeys(top, <<"target">>))
        ELSE top

\* Manifest::remove_dev_deps, manifest.rs 29-33
ManifestRemoveDevDeps(raw) == DocToString(remove_dev_deps(Parse(raw)))

\* manifest.rs tests::a
ManifestA ==
    <<Header(<<"package">>), Header(<<"dependencies">>), Header(<<"example">>),
      Header(<<KEY, "opencl">>), Header(<<KEY>>)>>

\* manifest.rs tests::target_deps2
ManifestT ==
    <<Header(<<"package">>),
      Header(<<"target", "cfg(unix)", KEY>>), KeyVal("foo", "str"),
      Header(<<"target", "cfg(unix)", KEY, "bar">>),
      Header(<<KEY>>), KeyVal("foo", "str"),
      Header(<<"target", "cfg(unix)", "dependencies">>), KeyVal("foo", "str")>>

\* manifest.rs tests::not_table_multi_line
ManifestN == <<Header(<<"package">>), KeyVal("foo", "array")>>

Manifests == <<ManifestA, ManifestT, ManifestN>>

\* the lines generated manifests are made of; "str" is a string value,
\* "array" an array holding the string dev-dependencies (tests::
\* not_table_multi_line), "inline" an inline table { features = [] }
TopLines == {KeyVal(KEY, "str"), KeyVal(KEY, "inline"), KeyVal("target", "str")}

BodyLines ==
    {Header(<<KEY>>), Header(<<KEY, "bar">>), Header(<<"dependencies">>),
     Header(<<"target">>), Header(<<"target", "u">>),
     ArrayHeader(<<"target", "u">>),
     Header(<<"target", "u", KEY>>), Header(<<"target", "u", "dependencies">>),
     Header(<<"target", "w", KEY>>),
     KeyVal("foo", "str"), KeyVal("foo", "array"),
     KeyVal(KEY, "str"), KeyVal(KEY, "inline")}

\* raw.parse() returns Ok: no key is defined twice and only tables and arrays
\* of tables have entries beneath them
ValidToml(raw) ==
    LET doc == Parse(raw)
    IN  \A i, j \in 1..Len(doc) :
            i # j =>
                /\ doc[i].path # doc[j].path
                /\ IsPrefix(doc[i].path, doc[j].path) => raw[i].t # "kv"

\* the manifests Manifest::new returns Ok for: the keys of the root table,
\* [package], and up to MaxLines lines more
Documents ==
    {raw \in {top \o <<Header(<<"package">>)>> \o rest :
                 top \in SeqsUpTo(TopLines, 1),
                 rest \in SeqsUpTo(BodyLines, MaxLines)} : ValidToml(raw)}

----------------------------------------------------------------------------
(* Kind and determine_kind, main.rs 74-169 *)

NoSubcommand == [tag |-> "NoSubcommand", features |-> <<>>, combos |-> <<>>]
SkipAsPrivate == [tag |-> "SkipAsPrivate", features |-> <<>>, combos |-> <<>>]
Nomal == [tag |-> "Nomal", features |-> <<>>, combos |-> <<>>]
Each(features) == [tag |-> "Each", features |-> features, combos |-> <<>>]
Powerset(features) == [tag |-> "Powerset", features |-> <<>>, combos |-> features]

\* `b as usize`
AsUsize(b) == IF b THEN 1 ELSE 0

\* cx.is_private(id): the package forbids publishing
IsPrivate(package) == ~package.publish

\* the filter looking at the exclude list only
FeatureFilterNoGroups(c, f) == ~Contains(c.exclude_features, f)

\* the closure `filter`, main.rs 96-98
FeatureFilter(c, f) ==
    /\ ~Contains(c.exclude_features, f)
    /\ ~\E i \in 1..Len(c.group_features) : Contains(c.group_features[i].g, f)

\* the list `features`, main.rs 99-141
FeatureList(c, package) ==
    LET filter(f) == FeatureFilter(c, f)
        opt(f) == /\ filter(f)
                  /\ \/ Unwrap(c.optional_deps) = <<>>
                     \/ Contains(Unwrap(c.optional_deps), f)
    IN  IF c.include_features = <<>>
        THEN SelectSeq(package.features, filter)
             \o (IF IsSome(c.optional_deps)
                 THEN SelectSeq(package.optional_deps, opt) ELSE <<>>)
             \o (IF c.include_deps_features
                 THEN SelectSeq(package.deps_features, filter) ELSE <<>>)
             \o [i \in 1..Len(c.group_features) |-> c.group_features[i].s]
        ELSE SelectSeq(c.include_features, filter)

\* the Each branch counting only the feature variants
EachKindNoExtras(c, package, features, total) ==
    IF (package.features = <<>> \/ c.include_features # <<>>) /\ features = <<>>
    THEN [kind |-> Nomal, total |-> total + 1]
    ELSE [kind |-> Each(features), total |-> total + Len(features)]

\* main.rs 143-152
EachKind(c, package, features, total) ==
    IF (package.features = <<>> \/ c.include_features # <<>>) /\ features = <<>>
    THEN [kind |-> Nomal, total |-> total + 1]
    ELSE [kind |-> Each(features),
          total |-> total + Len(features)
                      + AsUsize(~c.exclude_no_default_features)
                      + AsUsize(~c.exclude_all_features)]

\* the Powerset branch counting the leading empty combination as a unit
PowersetKindCountsEmpty(c, package, features, total) ==
    LET combos == powerset(features, c.depth)
    IN  IF (package.features = <<>> \/ c.include_features # <<>>) /\ combos = <<>>
        THEN [kind |-> Nomal, total |-> total + 1]
        ELSE [kind |-> Powerset(combos),
              total |-> total + Len(combos)
                          + AsUsize(~c.exclude_no_default_features)
                          + AsUsize(~c.exclude_all_features)]

\* main.rs 153-165
PowersetKind(c, package, features, total) ==
    LET combos == powerset(features, c.depth)
    IN  IF (package.features = <<>> \/ c.include_features # <<>>) /\ combos = <<>>
        THEN [kind |-> Nomal, total |-> total + 1]
        ELSE [kind |-> Powerset(combos),
              total |-> total + Len(combos) - 1
                          + AsUsize(~c.exclude_no_default_features)
                          + AsUsize(~c.exclude_all_features)]

\* the check of the subcommand made before the check of the private package
DetermineKindSubcommandFirst(c, package, total) ==
    IF ~IsSome(c.subcommand)
    THEN [kind |-> NoSubcommand, total |-> total]
    ELSE IF c.ignore_private /\ IsPrivate(package)
    THEN [kind |-> SkipAsPrivate, total |-> total]
    ELSE IF ~c.each_feature /\ ~c.feature_powerset
    THEN [kind |-> Nomal, total |-> total + 1]
    ELSE IF c.each_feature
    THEN EachKind(c, package, FeatureList(c, package), total)
    ELSE PowersetKind(c, package, FeatureList(c, package), total)

\* fn determine_kind: the Kind and progress.total after the call
determine_kind(c, package, total) ==
    IF c.ignore_private /\ IsPrivate(package)
    THEN [kind |-> SkipAsPrivate, total |-> total]
    ELSE IF ~IsSome(c.subcommand)
    THEN [kind |-> NoSubcommand, total |-> total]
    ELSE IF ~c.each_feature /\ ~c.feature_powerset
    THEN [kind |-> Nomal, total |-> total + 1]
    ELSE IF c.each_feature
    THEN EachKind(c, package, FeatureList(c, package), total)
    ELSE PowersetKind(c, package, FeatureList(c, package), total)

----------------------------------------------------------------------------
(* determine_package_list, main.rs 171-212 *)

Names(members) == [i \in 1..Len(members) |-> members[i].name]

\* .map(|id| (id, determine_kind(cx, id, progress))).collect()
RECURSIVE Classify(_, _, _, _)
Classify(c, selected, list, total) ==
    IF selected = <<>> THEN [list |-> list, total |-> total]
    ELSE LET r == determine_kind(c, Head(selected), total)
         IN  Classify(c, Tail(selected),
                      Append(list, [package |-> Head(selected), kind |-> r.kind]),
                      r.total)

\* the -p branch listing the packages in the order their names were given
SelectedInGivenOrder(c) ==
    LET notExcluded(m) == ~Contains(c.exclude, m.name)
        isCurrent(m) == m.name = Unwrap(c.current_package)
        found == SelectSeq(c.members, isCurrent)
        byName(n) == CHOOSE m \in {c.members[i] : i \in 1..Len(c.members)} :
                        m.name = n
    IN  IF c.workspace THEN SelectSeq(c.members, notExcluded)
        ELSE IF c.package # <<>>
        THEN [i \in 1..Len(c.package) |-> byName(c.package[i])]
        ELSE IF ~IsSome(c.current_package) THEN c.members
        ELSE IF found = <<>> THEN <<>> ELSE <<found[1]>>

\* the members the selection rule keeps, in workspace_members() order
Selected(c) ==
    LET notExcluded(m) == ~Contains(c.exclude, m.name)
        named(m) == Contains(c.package, m.name)
        isCurrent(m) == m.name = Unwrap(c.current_package)
        found == SelectSeq(c.members, isCurrent)
    IN  IF c.workspace THEN SelectSeq(c.members, notExcluded)
        ELSE IF c.package # <<>> THEN SelectSeq(c.members, named)
        ELSE IF ~IsSome(c.current_package) THEN c.members
        ELSE IF found = <<>> THEN <<>> ELSE <<found[1]>>

\* an --exclude name that matches no member treated like an unmatched -p
UnknownPackageOrExclude(c) ==
    \/ ~c.workspace /\ \E i \in 1..Len(c.package) :
                           ~Contains(Names(c.members), c.package[i])
    \/ c.workspace /\ \E i \in 1..Len(c.exclude) :
                          ~Contains(Names(c.members), c.exclude[i])

\* main.rs 191-197: a -p name that matches no member
UnknownPackage(c) ==
    ~c.workspace /\ \E i \in 1..Len(c.package) : ~Contains(Names(c.members), c.package[i])

\* fn determine_package_list
determine_package_list(c) ==
    IF UnknownPackage(c)
    THEN [ok |-> FALSE, list |-> <<>>, total |-> 0]
    ELSE LET r == Classify(c, Selected(c), <<>>, 0)
         IN  [ok |-> TRUE, list |-> r.list, total |-> r.total]

----------------------------------------------------------------------------
(* The workspace and the flags a run is started with *)

PkgNames == <<"p1", "p2", "p3", "p4">>

\* a workspace member: metadata.packages[id] with its manifest file's bytes
Package(i, pr) ==
    [name |-> PkgNames[i], publish |-> pr.publish, features |-> pr.features,
     optional_deps |-> pr.optional_deps, deps_features |-> pr.deps_features,
     raw |-> Manifests[((i - 1) % Len(Manifests)) + 1]]

\* what a member declares: its [features] table, its optional dependencies,
\* the features of its dependencies, and whether it may be published
Profile(features, optional_deps, deps_features, publish) ==
    [features |-> features, optional_deps |-> optional_deps,
     deps_features |-> deps_features, publish |-> publish]

Profiles ==
    {Profile(<<>>, <<>>, <<>>, TRUE),
     Profile(<<"a">>, <<>>, <<>>, FALSE),
     Profile(<<"a", "b">>, <<>>, <<>>, TRUE)}

RECURSIVE Workspaces(_)
Workspaces(n) ==
    IF n = 0 THEN {<<>>}
    ELSE {Append(w, Package(n, pr)) : w \in Workspaces(n - 1), pr \in Profiles}

\* the selection flags: --workspace, --exclude, -p, and the current package
Selections ==
    {[workspace |-> TRUE, exclude |-> <<>>, package |-> <<>>, current_package |-> None],
     [workspace |-> FALSE, exclude |-> <<>>, package |-> <<"p1">>, current_package |-> None],
     [workspace |-> FALSE, exclude |-> <<>>, package |-> <<"zz">>, current_package |-> None]}

\* the flags that decide the units: each_feature, feature_powerset,
\* exclude_no_default_features, exclude_all_features, clean_per_run
FeatureModes ==
    {<<FALSE, FALSE, FALSE, FALSE>>}
    \cup {<<TRUE, FALSE, x, y>> : x \in BOOLEAN, y \in BOOLEAN}
    \cup {<<FALSE, TRUE, x, y>> : x \in BOOLEAN, y \in BOOLEAN}

\* subcommand, no_dev_deps, remove_dev_deps
DevModes ==
    {<<Some("check"), FALSE, FALSE>>, <<Some("check"), TRUE, FALSE>>,
     <<Some("check"), FALSE, TRUE>>, <<None, FALSE, TRUE>>}

\* ignore_private, clean_per_run
AuxModes == {<<FALSE, FALSE>>, <<TRUE, FALSE>>, <<FALSE, TRUE>>}

\* include_features, exclude_features, group_features, optional_deps,
\* include_deps_features, depth: as when none of the flags is given
DefaultPolicy == <<<<>>, <<>>, <<>>, None, FALSE, None>>

Context(w, sel, dev, mode, aux, pol) ==
    [members |-> w,
     workspace |-> sel.workspace, exclude |-> sel.exclude,
     package |-> sel.package, current_package |-> sel.current_package,
     subcommand |-> dev[1],
     no_dev_deps |-> dev[2], remove_dev_deps |-> dev[3],
     each_feature |-> mode[1], feature_powerset |-> mode[2],
     exclude_no_default_features |-> mode[3], exclude_all_features |-> mode[4],
     ignore_private |-> aux[1], clean_per_run |-> aux[2],
     no_default_features |-> FALSE,
     leading |-> IF IsSome(dev[1]) THEN <<Unwrap(dev[1])>> ELSE <<>>,
     include_features |-> pol[1], exclude_features |-> pol[2],
     group_features |-> pol[3], optional_deps |-> pol[4],
     include_deps_features |-> pol[5], depth |-> pol[6]]

Contexts ==
    {Context(w, sel, dev, mode, aux, DefaultPolicy) :
        w \in Workspaces(NumPkgs), sel \in Selections, dev \in DevModes,
        mode \in FeatureModes, aux \in AuxModes}

\* the members the planner is run on under every feature policy
PlanProfiles ==
    {Profile(<<>>, <<>>, <<>>, TRUE),
     Profile(<<"a", "b">>, <<>>, <<>>, TRUE),
     Profile(<<>>, <<"o">>, <<>>, TRUE),
     Profile(<<"a">>, <<"o">>, <<"d/x">>, TRUE),
     Profile(<<"a">>, <<>>, <<>>, FALSE)}

PlanWorkspaces ==
    {<<Package(1, pr)>> : pr \in PlanProfiles}
    \cup {<<Package(1, pr), Package(2, Profile(<<"a", "b">>, <<"o">>, <<>>, TRUE))>> :
             pr \in PlanProfiles}

\* the feature policies: --include-features, --exclude-features (--skip),
\* --group-features, --optional-deps, --include-deps-features, --depth
Policies ==
    {<<inc, exc, grp, opt, deps, depth>> :
        inc \in {<<>>, <<"a">>, <<"b", "a">>},
        exc \in {<<>>, <<"a">>},
        grp \in {<<>>, <<[g |-> <<"a", "b">>, s |-> "a,b"]>>},
        opt \in {None, Some(<<>>), Some(<<"o">>)},
        deps \in BOOLEAN,
        depth \in {None, Some(0), Some(1)}}

PlanContexts ==
    {Context(w, [workspace |-> TRUE, exclude |-> <<>>, package |-> <<>>,
                 current_package |-> None],
             <<Some("check"), FALSE, FALSE>>, mode, <<ip, FALSE>>, pol) :
        w \in PlanWorkspaces, mode \in FeatureModes, ip \in BOOLEAN,
        pol \in Policies}
    \cup
    {Context(w, [workspace |-> TRUE, exclude |-> <<>>, package |-> <<>>,
                 current_package |-> None],
             <<None, FALSE, TRUE>>, mode, <<ip, FALSE>>, DefaultPolicy) :
        w \in PlanWorkspaces, mode \in FeatureModes, ip \in BOOLEAN}

\* the selections the package list is built from: --workspace with and
\* without --exclude (of members and of an unknown name), -p names in and
\* out of listing order, twice and unknown, with and without a current
\* package
SelectSelections ==
    {[workspace |-> w, exclude |-> e, package |-> p, current_package |-> cur] :
        w \in BOOLEAN,
        e \in {<<>>, <<"p2">>, <<"zz">>, <<"p3", "p1">>, <<"zz", "p2">>},
        p \in {<<>>, <<"p1">>, <<"p3", "p1">>, <<"p2", "p2">>, <<"zz">>,
                <<"p3", "zz">>},
        cur \in {None, Some("p2")}}

\* three members: all public without features, or the second one private
\* and the third with a feature
SelectWorkspaces ==
    {<<Package(1, Profile(<<>>, <<>>, <<>>, TRUE)),
       Package(2, Profile(<<>>, <<>>, <<>>, pub)),
       Package(3, Profile(fs, <<>>, <<>>, TRUE))>> :
        pub \in BOOLEAN, fs \in {<<>>, <<"a">>}}

SelectContexts ==
    {Context(w, sel, <<Some("check"), FALSE, FALSE>>, mode, <<ip, FALSE>>,
             DefaultPolicy) :
        w \in SelectWorkspaces, sel \in SelectSelections,
        mode \in {<<FALSE, FALSE, FALSE, FALSE>>, <<TRUE, FALSE, FALSE, FALSE>>},
        ip \in BOOLEAN}

\* --group-features a,b and --group-features o,d/x: the members of a group
\* and its synthetic name
GroupAB == [g |-> <<"a", "b">>, s |-> "a,b"]
GroupOD == [g |-> <<"o", "d/x">>, s |-> "o,d/x"]

\* the members the enumerator is run on: without features; with features, an
\* optional dependency and a dependency's feature; with a feature named as
\* an optional dependency is (o = ["dep:o"])
EnumProfiles ==
    {Profile(<<>>, <<>>, <<>>, TRUE),
     Profile(<<"a", "b", "c">>, <<"o">>, <<"d/x">>, TRUE),
     Profile(<<"a", "o">>, <<"o", "q">>, <<"d/x">>, TRUE)}

\* the feature policies the enumerator is run under: include lists that
\* repeat a name or name excluded and grouped features, exclude lists of
\* normal, optional-dependency and dependency features, one or two groups
EnumPolicies ==
    {<<inc, exc, grp, opt, deps, depth>> :
        inc \in {<<>>, <<"c">>, <<"b", "a">>, <<"a", "c", "a">>},
        exc \in {<<>>, <<"a">>, <<"o", "d/x">>},
        grp \in {<<>>, <<GroupAB>>, <<GroupAB, GroupOD>>},
        opt \in {None, Some(<<>>), Some(<<"o">>)},
        deps \in BOOLEAN,
        depth \in {None, Some(1)}}

\* cargo hack check [--no-default-features] --each-feature or
\* --feature-powerset --exclude-all-features on one package
EnumContexts ==
    {[Context(<<Package(1, pr)>>,
              [workspace |-> TRUE, exclude |-> <<>>, package |-> <<>>,
               current_package |-> None],
              <<Some("check"), FALSE, FALSE>>, mode, <<FALSE, FALSE>>, pol)
         EXCEPT !.no_default_features = ndf,
                !.leading = IF ndf THEN @ \o <<"--no-default-features">> ELSE @] :
        pr \in EnumProfiles, pol \in EnumPolicies, ndf \in BOOLEAN,
        mode \in {<<TRUE, FALSE, FALSE, FALSE>>, <<FALSE, TRUE, FALSE, TRUE>>}}

\* one package with a generated manifest, cargo hack --remove-dev-deps
ManifestContexts ==
    {Context(<<[Package(1, Profile(<<>>, <<>>, <<>>, TRUE)) EXCEPT !.raw = raw]>>,
             [workspace |-> TRUE, exclude |-> <<>>, package |-> <<>>,
              current_package |-> None],
             <<None, FALSE, TRUE>>, <<FALSE, FALSE, FALSE, FALSE>>,
             <<FALSE, FALSE>>, DefaultPolicy) : raw \in Documents}

\* a private member with a feature next to a public member without one
ArgsWorkspaces ==
    {<<Package(1, Profile(<<"a">>, <<>>, <<>>, FALSE)),
       Package(2, Profile(<<>>, <<>>, <<>>, TRUE))>>}

\* cli.rs 457-461: the arguments that select test, example or bench targets
TargetFlags ==
    {"--example", "--examples", "--test", "--tests", "--bench", "--benches",
     "--all-targets", "--example=x", "--test=x", "--bench=x"}

HasTargetFlag(c) == \E i \in 1..Len(c.leading) : c.leading[i] \in TargetFlags

\* cli::args, cli.rs 418-429: args() returns Ok(None) after printing the
\* help text or the version
ArgsAnswers(c) ==
    \/ c.leading = <<>> /\ ~c.remove_dev_deps
    \/ ~IsSome(c.subcommand) /\ (Contains(c.leading, "-h") \/ Contains(c.leading, "--help"))
    \/ Contains(c.leading, "--version")

\* the validation without the check of --each-feature with --feature-powerset
ArgsErrorLenient(c) ==
    IF c.exclude # <<>> /\ ~c.workspace THEN Some("--exclude")
    ELSE IF ~c.each_feature /\ ~c.feature_powerset /\ c.exclude_features # <<>>
    THEN Some("--skip")
    ELSE IF ~c.each_feature /\ ~c.feature_powerset /\ IsSome(c.optional_deps)
    THEN Some("--optional-deps")
    ELSE IF ~c.each_feature /\ ~c.feature_powerset /\ c.exclude_no_default_features
    THEN Some("--skip-no-default-features")
    ELSE IF c.subcommand \in {Some("test"), Some("bench")} /\ c.remove_dev_deps
    THEN Some("--remove-dev-deps")
    ELSE IF c.subcommand \in {Some("test"), Some("bench")} /\ c.no_dev_deps
    THEN Some("--no-dev-deps")
    ELSE IF HasTargetFlag(c) /\ c.remove_dev_deps THEN Some("--remove-dev-deps")
    ELSE IF HasTargetFlag(c) /\ c.no_dev_deps THEN Some("--no-dev-deps")
    ELSE IF c.no_dev_deps /\ c.remove_dev_deps THEN Some("--no-dev-deps")
    ELSE IF ~IsSome(c.subcommand) /\ ~c.remove_dev_deps THEN Some("No subcommand")
    ELSE None

\* cli::args, cli.rs 431-495: the message args() bails with, None when it returns Ok
ArgsError(c) ==
    IF c.exclude # <<>> /\ ~c.workspace THEN Some("--exclude")
    ELSE IF ~c.each_feature /\ ~c.feature_powerset /\ c.exclude_features # <<>>
    THEN Some("--skip")
    ELSE IF ~c.each_feature /\ ~c.feature_powerset /\ IsSome(c.optional_deps)
    THEN Some("--optional-deps")
    ELSE IF ~c.each_feature /\ ~c.feature_powerset /\ c.exclude_no_default_features
    THEN Some("--skip-no-default-features")
    ELSE IF c.subcommand \in {Some("test"), Some("bench")} /\ c.remove_dev_deps
    THEN Some("--remove-dev-deps")
    ELSE IF c.subcommand \in {Some("test"), Some("bench")} /\ c.no_dev_deps
    THEN Some("--no-dev-deps")
    ELSE IF HasTargetFlag(c) /\ c.remove_dev_deps THEN Some("--remove-dev-deps")
    ELSE IF HasTargetFlag(c) /\ c.no_dev_deps THEN Some("--no-dev-deps")
    ELSE IF c.no_dev_deps /\ c.remove_dev_deps THEN Some("--no-dev-deps")
    ELSE IF c.each_feature /\ c.feature_powerset THEN Some("--each-feature")
    ELSE IF ~IsSome(c.subcommand) /\ ~c.remove_dev_deps THEN Some("No subcommand")
    ELSE None

\* the command lines args() is given: every combination of cargo-hack's
\* flags, with and without a subcommand, a target flag, -h or --version
ArgsContexts ==
    {[Context(w, [workspace |-> ws, exclude |-> exc, package |-> <<>>,
                  current_package |-> None],
              <<sub, nd, rd>>, <<ef, fp, sndf, FALSE>>, <<ip, FALSE>>,
              <<<<>>, skip, <<>>, opt, FALSE, None>>)
         EXCEPT !.leading = @ \o more] :
        w \in ArgsWorkspaces, ws \in BOOLEAN, exc \in {<<>>, <<"p2">>},
        sub \in {None, Some("check"), Some("test"), Some("bench")},
        nd \in BOOLEAN, rd \in BOOLEAN, ef \in BOOLEAN, fp \in BOOLEAN,
        sndf \in BOOLEAN, ip \in BOOLEAN,
        skip \in {<<>>, <<"a">>}, opt \in {None, Some(<<>>)},
        more \in {<<>>, <<"--tests">>, <<"--example=x">>, <<"-h">>, <<"--version">>}}

----------------------------------------------------------------------------
(* exec_actual, main.rs 250-306: the units of a package and their order *)

\* the variants the match at main.rs 283-297 iterates: Some(f) per feature
\* of Each, the combinations of Powerset after skip(1)
Variants(kind) ==
    IF kind.tag = "Each"
    THEN [i \in 1..Len(kind.features) |-> <<kind.features[i]>>]
    ELSE IF kind.tag = "Powerset" THEN Tail(kind.combos)
    ELSE <<>>

At(stage, i) == [stage |-> stage, i |-> i]

\* the all-features unit placed before the variants
RECURSIVE SettleAllFirst(_, _, _)
SettleAllFirst(c, kind, p) ==
    IF p.stage = "ndf" /\ c.exclude_no_default_features
    THEN SettleAllFirst(c, kind, At("all", 0))
    ELSE IF p.stage = "all" /\ c.exclude_all_features
    THEN SettleAllFirst(c, kind, At("variants", 1))
    ELSE IF p.stage = "variants" /\ p.i > Len(Variants(kind))
    THEN At("end", 0)
    ELSE p

\* from position p, the next position at which a unit is run: a stage whose
\* guard is false (main.rs 278, 299) or whose iterator is exhausted is passed
RECURSIVE Settle(_, _, _)
Settle(c, kind, p) ==
    IF p.stage = "ndf" /\ c.exclude_no_default_features
    THEN Settle(c, kind, At("variants", 1))
    ELSE IF p.stage = "variants" /\ p.i > Len(Variants(kind))
    THEN Settle(c, kind, At("all", 0))
    ELSE IF p.stage = "all" /\ c.exclude_all_features
    THEN At("end", 0)
    ELSE p

\* NoSubcommand run like Nomal: one invocation with the default features
StartPosRunsNoSubcommand(c, kind) ==
    IF kind.tag \in {"NoSubcommand", "Nomal"} THEN At("normal", 0)
    ELSE Settle(c, kind, At("ndf", 0))

\* the first unit of exec_actual, main.rs 257-281
StartPos(c, kind) ==
    IF kind.tag = "NoSubcommand" THEN At("end", 0)
    ELSE IF kind.tag = "Nomal" THEN At("normal", 0)
    ELSE Settle(c, kind, At("ndf", 0))

\* the unit after the one at p has returned Ok
NextPos(c, kind, p) ==
    IF p.stage = "normal" THEN At("end", 0)
    ELSE IF p.stage = "ndf" THEN Settle(c, kind, At("variants", 1))
    ELSE IF p.stage = "variants" THEN Settle(c, kind, At("variants", p.i + 1))
    ELSE At("end", 0)

\* ProcessBuilder: the arguments added by arg() and by append_features()
Arg(line, a) == [line EXCEPT !.args = Append(@, a)]
AppendFeatures(line, fs) == [line EXCEPT !.features = @ \o fs]

\* cx.process().with_args(cx), main.rs 59: the line every invocation starts
\* from holds the arguments passed through to cargo
WithArgs(c) == [args |-> c.leading, features |-> <<>>]

\* the line exec_on_package builds, main.rs 228-232
PackageLine(c, package) ==
    Arg(Arg(WithArgs(c), "--manifest-path"), package.name)

\* the variants' features appended to the one line, each after the earlier
UnitLineAccumulates(c, package, kind, p) ==
    LET base == PackageLine(c, package)
        line == IF ~c.no_default_features
                THEN Arg(base, "--no-default-features") ELSE base
        upTo(n) == [k \in 1..n |-> Variants(kind)[k]]
        RECURSIVE Flat(_)
        Flat(vs) == IF vs = <<>> THEN <<>> ELSE Head(vs) \o Flat(Tail(vs))
    IN  IF p.stage = "normal" THEN base
        ELSE IF p.stage = "ndf" THEN line
        ELSE IF p.stage = "variants"
        THEN AppendFeatures(line, Flat(upTo(p.i)))
        ELSE Arg(AppendFeatures(line, Flat(Variants(kind))), "--all-features")

\* the line handed to exec_cargo for the unit at p, main.rs 267-303, 315-316
UnitLine(c, package, kind, p) ==
    LET base == PackageLine(c, package)
        line == IF ~c.no_default_features
                THEN Arg(base, "--no-default-features") ELSE base
    IN  IF p.stage = "normal" THEN base
        ELSE IF p.stage = "ndf" THEN line
        ELSE IF p.stage = "variants"
        THEN AppendFeatures(line, Variants(kind)[p.i])
        ELSE Arg(line, "--all-features")

----------------------------------------------------------------------------
(* The run: try_main, exec_on_workspace, exec_on_package, exec_cargo *)

\* exit statuses a failing child process ends with
FailStatuses == {1, 101}

\* what fs::write leaves in the file when it fails: the open failed and the
\* file is as before, or the file was truncated and the write failed
Truncated == <<>>

NameSet == {PkgNames[i] : i \in 1..Len(PkgNames)}

Member(c, name) == CHOOSE m \in {c.members[i] : i \in 1..Len(c.members)} : m.name = name

Error(kind, status, name) == [kind |-> kind, status |-> status, package |-> name]

HistInit ==
    [edits |-> [n \in NameSet |-> 0], restores |-> [n \in NameSet |-> 0],
     restore_failed |-> FALSE, reported |-> {}, write_failed |-> {}]

RunIdle ==
    /\ pc = "idle" /\ plan = <<>> /\ idx = 0 /\ pos = At("end", 0)
    /\ progress = [total |-> 0, count |-> 0]
    /\ log = <<>> /\ err = None /\ exit_code = None
    /\ current = None /\ handle = None /\ sig = "idle" /\ hist = HistInit

\* the state exec_on_workspace is entered in: Context::new has returned Ok,
\* every member's manifest has been read from disk
RunInit(contexts) ==
    /\ cx \in {c \in contexts : ~ArgsAnswers(c) /\ ArgsError(c) = None}
    /\ pc = "plan" /\ plan = <<>> /\ idx = 0 /\ pos = At("end", 0)
    /\ progress = [total |-> 0, count |-> 0]
    /\ log = <<>> /\ err = None /\ exit_code = None
    /\ disk = [n \in NameSet |->
                 IF \E i \in 1..Len(cx.members) : cx.members[i].name = n
                 THEN Member(cx, n).raw ELSE <<>>]
    /\ current = None /\ handle = None /\ sig = "idle" /\ hist = HistInit

\* try_main, main.rs 44-45, over cli::args: the help text or the version is
\* printed and there is nothing to run, or the validation bails and `?`
\* returns the error, or exec_on_workspace is entered
ParseArgs ==
    /\ pc = "args"
    /\ IF ArgsAnswers(cx)
       THEN pc' = "help" /\ err' = err
       ELSE IF ArgsError(cx) # None
       THEN pc' = "return" /\ err' = Some(Error("args", 0, ""))
       ELSE pc' = "plan" /\ err' = err
    /\ UNCHANGED <<cx, plan, idx, pos, progress, log, exit_code, disk,
                   current, handle, sig, hist, ps>>

Entry == plan[idx]

\* exec_on_workspace, main.rs 59-63: determine_package_list(cx, &mut progress)?
DeterminePackageList ==
    /\ pc = "plan"
    /\ LET r == determine_package_list(cx)
       IN  IF r.ok
           THEN /\ plan' = r.list
                /\ progress' = [progress EXCEPT !.total = r.total]
                /\ idx' = 1
                /\ pc' = "pkg"
                /\ err' = err
           ELSE /\ err' = Some(Error("package", 0, ""))
                /\ pc' = "return"
                /\ UNCHANGED <<plan, progress, idx>>
    /\ UNCHANGED <<cx, pos, log, exit_code, disk, current, handle, sig, hist, ps>>

\* try_for_each has no entry left: exec_on_workspace returns Ok(())
WorkspaceDone ==
    /\ pc = "pkg" /\ idx > Len(plan)
    /\ pc' = "return"
    /\ UNCHANGED <<cx, plan, idx, pos, progress, log, err, exit_code, disk,
                   current, handle, sig, hist, ps>>

\* exec_on_package, main.rs 223-226
SkipPrivate ==
    /\ pc = "pkg" /\ idx <= Len(plan)
    /\ Entry.kind.tag = "SkipAsPrivate"
    /\ idx' = idx + 1
    /\ UNCHANGED <<cx, pc, plan, pos, progress, log, err, exit_code, disk,
                   current, handle, sig, hist, ps>>

\* Restore::new: the restore is needed in --no-dev-deps mode only
NeedsRestore(c) == c.no_dev_deps /\ ~c.remove_dev_deps

\* set_manifest registering a backup whatever the mode is
SetManifestAlwaysBacksUp ==
    /\ pc = "pkg" /\ idx <= Len(plan)
    /\ Entry.kind.tag # "SkipAsPrivate"
    /\ cx.no_dev_deps \/ cx.remove_dev_deps
    /\ current' = Some([path |-> Entry.package.name,
                        manifest |-> Entry.package.raw])
    /\ handle' = Some("armed")
    /\ hist' = hist
    /\ pc' = "write"
    /\ UNCHANGED <<cx, plan, idx, pos, progress, log, err, exit_code, disk, sig, ps>>

\* exec_on_package, main.rs 234-236: the edited text is computed and
\* restore.set_manifest(cx, id) registers the backup of the raw bytes
SetManifest ==
    /\ pc = "pkg" /\ idx <= Len(plan)
    /\ Entry.kind.tag # "SkipAsPrivate"
    /\ cx.no_dev_deps \/ cx.remove_dev_deps
    /\ IF NeedsRestore(cx)
       THEN /\ current' = Some([path |-> Entry.package.name,
                                manifest |-> Entry.package.raw])
            /\ handle' = Some("armed")
       ELSE /\ handle' = Some("empty")
            /\ current' = current
    /\ hist' = hist
    /\ pc' = "write"
    /\ UNCHANGED <<cx, plan, idx, pos, progress, log, err, exit_code, disk, sig, ps>>

\* exec_on_package, main.rs 246: no dev-dependency removal was asked for
EnterPlain ==
    /\ pc = "pkg" /\ idx <= Len(plan)
    /\ Entry.kind.tag # "SkipAsPrivate"
    /\ ~(cx.no_dev_deps \/ cx.remove_dev_deps)
    /\ pc' = "exec"
    /\ pos' = StartPos(cx, Entry.kind)
    /\ UNCHANGED <<cx, plan, idx, progress, log, err, exit_code, disk,
                   current, handle, sig, hist, ps>>

\* exec_on_package, main.rs 238-240: fs::write(&package.manifest_path, new)
WriteManifest ==
    /\ pc = "write"
    /\ disk' = [disk EXCEPT ![Entry.package.name] =
                    ManifestRemoveDevDeps(Entry.package.raw)]
    /\ hist' = [hist EXCEPT !.edits[Entry.package.name] = @ + 1]
    /\ pc' = "exec"
    /\ pos' = StartPos(cx, Entry.kind)
    /\ UNCHANGED <<cx, plan, idx, progress, log, err, exit_code, current,
                   handle, sig, ps>>

\* the error of fs::write dropped: exec_on_package goes on to exec_actual
WriteManifestFailsIgnored ==
    /\ pc = "write"
    /\ \E left \in {disk[Entry.package.name], Truncated} :
          disk' = [disk EXCEPT ![Entry.package.name] = left]
    /\ hist' = [hist EXCEPT !.write_failed = @ \cup {Entry.package.name}]
    /\ pc' = "exec"
    /\ pos' = StartPos(cx, Entry.kind)
    /\ UNCHANGED <<cx, plan, idx, progress, log, err, exit_code, current,
                   handle, sig, ps>>

\* main.rs 238-240: the write fails and `?` returns the error
WriteManifestFails ==
    /\ pc = "write"
    /\ \E left \in {disk[Entry.package.name], Truncated} :
          disk' = [disk EXCEPT ![Entry.package.name] = left]
    /\ hist' = [hist EXCEPT !.write_failed = @ \cup {Entry.package.name}]
    /\ err' = Some(Error("write", 0, Entry.package.name))
    /\ pc' = "drop"
    /\ UNCHANGED <<cx, plan, idx, pos, progress, log, exit_code, current,
                   handle, sig, ps>>

LogEntry(status, what) ==
    [package |-> Entry.package.name, stage |-> pos.stage, i |-> pos.i,
     line |-> UnitLine(cx, Entry.package, Entry.kind, pos),
     what |-> what, status |-> status]

\* where exec_on_package goes when exec_actual has returned Ok, main.rs 242-246
AfterExecActual == IF handle = None THEN "pkg" ELSE "close"

\* exec_cargo, main.rs 320-343: the child exits with success
ExecCargoOk ==
    /\ pc = "exec" /\ pos.stage # "end"
    /\ progress' = [progress EXCEPT !.count = @ + 1]
    /\ log' = Append(log, LogEntry(0, "build"))
    /\ pos' = NextPos(cx, Entry.kind, pos)
    /\ UNCHANGED <<cx, pc, plan, idx, err, exit_code, disk, current, handle,
                   sig, hist, ps>>

\* the failing unit not ending exec_actual: the error of line.exec() dropped
ExecCargoFailsGoesOn ==
    /\ pc = "exec" /\ pos.stage # "end"
    /\ \E status \in FailStatuses :
          /\ log' = Append(log, LogEntry(status, "build"))
          /\ err' = IF IsSome(err) THEN err
                    ELSE Some(Error("exec", status, Entry.package.name))
    /\ progress' = [progress EXCEPT !.count = @ + 1]
    /\ pos' = NextPos(cx, Entry.kind, pos)
    /\ UNCHANGED <<cx, pc, plan, idx, exit_code, disk, current, handle, sig,
                   hist, ps>>

\* the failing unit not counted: progress.count raised after line.exec()
ExecCargoFailsUncounted ==
    /\ pc = "exec" /\ pos.stage # "end"
    /\ \E status \in FailStatuses :
          /\ log' = Append(log, LogEntry(status, "build"))
          /\ err' = Some(Error("exec", status, Entry.package.name))
    /\ pc' = "drop"
    /\ UNCHANGED <<cx, plan, idx, pos, progress, exit_code, disk, current,
                   handle, sig, hist, ps>>

\* exec_cargo, main.rs 342: line.exec() returns the failed status as Err, and
\* every `?` on the way up returns it
ExecCargoFails ==
    /\ pc = "exec" /\ pos.stage # "end"
    /\ \E status \in FailStatuses :
          /\ log' = Append(log, LogEntry(status, "build"))
          /\ err' = Some(Error("exec", status, Entry.package.name))
    /\ progress' = [progress EXCEPT !.count = @ + 1]
    /\ pc' = "drop"
    /\ UNCHANGED <<cx, plan, idx, pos, exit_code, disk, current, handle, sig,
                   hist, ps>>

\* the clean step counted as a unit of its own
CargoCleanFailsCountsClean ==
    /\ pc = "exec" /\ pos.stage # "end"
    /\ cx.clean_per_run
    /\ \E status \in FailStatuses :
          /\ log' = Append(log, LogEntry(status, "clean"))
          /\ err' = Some(Error("clean", status, Entry.package.name))
    /\ progress' = [progress EXCEPT !.count = @ + 2]
    /\ pc' = "drop"
    /\ UNCHANGED <<cx, plan, idx, pos, exit_code, disk, current, handle, sig,
                   hist, ps>>

\* exec_cargo, main.rs 326-330: cargo_clean fails before the build is run
CargoCleanFails ==
    /\ pc = "exec" /\ pos.stage # "end"
    /\ cx.clean_per_run
    /\ \E status \in FailStatuses :
          /\ log' = Append(log, LogEntry(status, "clean"))
          /\ err' = Some(Error("clean", status, Entry.package.name))
    /\ progress' = [progress EXCEPT !.count = @ + 1]
    /\ pc' = "drop"
    /\ UNCHANGED <<cx, plan, idx, pos, exit_code, disk, current, handle, sig,
                   hist, ps>>

\* exec_actual has returned Ok(()), main.rs 242-246
ExecActualDone ==
    /\ pc = "exec" /\ pos.stage = "end"
    /\ pc' = AfterExecActual
    /\ idx' = IF handle = None THEN idx + 1 ELSE idx
    /\ UNCHANGED <<cx, plan, pos, progress, log, err, exit_code, disk,
                   current, handle, sig, hist, ps>>

\* Restore::restore_dev_deps: the slot is emptied and the stored bytes are
\* written back; ok tells whether the write succeeds.  close() returns the
\* error of a failed write to its caller; the drop of a handle and the
\* interruption handler (by) can only report it
RestoreDevDeps(ok, by) ==
    IF current = None
    THEN ok /\ UNCHANGED <<current, disk, hist>>
    ELSE LET cur == Unwrap(current)
         IN  /\ current' = None
             /\ IF ok
                THEN /\ disk' = [disk EXCEPT ![cur.path] = cur.manifest]
                     /\ hist' = [hist EXCEPT !.restores[cur.path] = @ + 1]
                ELSE /\ \E left \in {disk[cur.path], Truncated} :
                           disk' = [disk EXCEPT ![cur.path] = left]
                     /\ hist' = [hist EXCEPT
                                    !.restore_failed = TRUE,
                                    !.reported = IF by = "close" THEN @
                                                 ELSE @ \cup {by}]

\* Handle::close: a handle that still holds its Restore restores
HandleClose(ok, by) ==
    IF handle = Some("armed")
    THEN RestoreDevDeps(ok, by)
    ELSE ok /\ UNCHANGED <<current, disk, hist>>

\* the handle leaked: neither close() nor the drop of the handle restores
CloseForgets ==
    /\ pc = "close"
    /\ handle' = Some("empty")
    /\ pc' = "closed"
    /\ UNCHANGED <<cx, plan, idx, pos, progress, log, err, exit_code, disk,
                   current, sig, hist, ps>>

\* close() writing the stored bytes back without taking the backup out of
\* the handle and the slot
CloseKeepsBackup ==
    /\ pc = "close"
    /\ IF handle = Some("armed") /\ current # None
       THEN /\ disk' = [disk EXCEPT ![Unwrap(current).path] = Unwrap(current).manifest]
            /\ hist' = [hist EXCEPT !.restores[Unwrap(current).path] = @ + 1]
       ELSE UNCHANGED <<disk, hist>>
    /\ pc' = "closed"
    /\ UNCHANGED <<cx, plan, idx, pos, progress, log, err, exit_code, current,
                   handle, sig, ps>>

\* exec_on_package, main.rs 244: handle.close() returns Ok; the handle has
\* given up its Restore and stays in scope until the function returns
Close ==
    /\ pc = "close"
    /\ HandleClose(TRUE, "close")
    /\ handle' = Some("empty")
    /\ pc' = "closed"
    /\ UNCHANGED <<cx, plan, idx, pos, progress, log, err, exit_code, sig, ps>>

\* the error of handle.close() ignored: exec_on_package goes on to Ok(())
CloseFailsSwallowed ==
    /\ pc = "close"
    /\ HandleClose(FALSE, "close")
    /\ handle' = Some("empty")
    /\ pc' = "closed"
    /\ UNCHANGED <<cx, plan, idx, pos, progress, log, err, exit_code, sig, ps>>

\* exec_on_package, main.rs 244: handle.close() returns the write's error
CloseFails ==
    /\ pc = "close"
    /\ HandleClose(FALSE, "close")
    /\ handle' = Some("empty")
    /\ err' = Some(Error("restore", 0, Entry.package.name))
    /\ pc' = "drop"
    /\ UNCHANGED <<cx, plan, idx, pos, progress, log, exit_code, sig, ps>>

\* exec_on_package, main.rs 244-248: close() has returned Ok, the handle goes
\* out of scope and exec_on_package returns Ok(())
ScopeEnd ==
    /\ pc = "closed"
    /\ \E ok \in BOOLEAN : HandleClose(ok, "drop")
    /\ handle' = None
    /\ idx' = idx + 1
    /\ pc' = "pkg"
    /\ UNCHANGED <<cx, plan, pos, progress, log, err, exit_code, sig, ps>>

\* exec_on_package returns Err, main.rs 240, 242 and 244: the handle goes
\* out of scope and is released; an error of that release is only reported
DropHandle ==
    /\ pc = "drop"
    /\ \E ok \in BOOLEAN : HandleClose(ok, "drop")
    /\ handle' = None
    /\ pc' = "return"
    /\ UNCHANGED <<cx, plan, idx, pos, progress, log, err, exit_code, sig, ps>>

\* the process exits with the failing child's status
MainExitMirrors ==
    /\ pc = "return"
    /\ exit_code' = IF err = None THEN Some(0)
                    ELSE IF Unwrap(err).kind \in {"exec", "clean"}
                    THEN Some(Unwrap(err).status)
                    ELSE Some(1)
    /\ pc' = "exited"
    /\ UNCHANGED <<cx, plan, idx, pos, progress, log, err, disk, current,
                   handle, sig, hist, ps>>

\* main, main.rs 36-41: Err(e) is printed and the process exits with 1
MainExit ==
    /\ pc = "return"
    /\ exit_code' = IF err = None THEN Some(0) ELSE Some(1)
    /\ pc' = "exited"
    /\ UNCHANGED <<cx, plan, idx, pos, progress, log, err, disk, current,
                   handle, sig, hist, ps>>

----------------------------------------------------------------------------
(* The interruption handler: it runs on its own thread while the main      *)
(* thread goes on                                                          *)

Running == pc \notin {"idle", "exited"}

\* the interruption signal is delivered and the handler makes its
\* restoration pass over the held backup
Interrupt ==
    /\ Running /\ sig = "idle"
    /\ \E ok \in BOOLEAN :
          /\ RestoreDevDeps(ok, "handler")
          /\ sig' = IF current # None THEN "restored" ELSE "passed"
    /\ UNCHANGED <<cx, pc, plan, idx, pos, progress, log, err, exit_code,
                   handle, ps>>

\* the handler lets the process terminate
HandlerExit ==
    /\ Running /\ sig \in {"restored", "passed"}
    /\ sig' = sig
    /\ pc' = "exited"
    /\ exit_code' = Some(1)
    /\ UNCHANGED <<cx, plan, idx, pos, progress, log, err, disk, current,
                   handle, hist, ps>>

----------------------------------------------------------------------------
(* The fold of powerset, one element at a time *)

PsIdle == [xs |-> <<>>, depth |-> None, rest |-> <<>>, acc |-> <<>>]

PsInit ==
    \E xs \in SeqsUpTo(Elems, MaxLen), d \in {None} \cup {Some(n) : n \in 0..MaxLen} :
        ps = [xs |-> xs, depth |-> d, rest |-> xs, acc |-> <<<<>>>>]

PowersetStep ==
    /\ ps.rest # <<>>
    /\ ps' = [ps EXCEPT !.acc = FoldStep(ps.acc, Head(ps.rest), ps.depth),
                        !.rest = Tail(ps.rest)]
    /\ UNCHANGED runVars

\* the elements the fold has consumed
PsDone == SubSeq(ps.xs, 1, Len(ps.xs) - Len(ps.rest))

----------------------------------------------------------------------------
(* Claims *)

Raw(n) == Member(cx, n).raw

\* exec_on_package has returned for the k-th entry of the plan
Exited(k) ==
    /\ k \in 1..Len(plan)
    /\ \/ k < idx
       \/ k = idx /\ pc \in {"return", "exited"}

Failed(i) == log[i].status # 0

\* C1: in --no-dev-deps mode, in a run that no interruption has reached and
\* in which no restoring write has failed, once exec_on_package has returned
\* for a package (its units all succeeded, a unit failed, or the write of the
\* edited manifest failed) the manifest on disk holds the raw bytes read
\* before the edit.
C1_RestoredOnEveryExit ==
    (NeedsRestore(cx) /\ sig = "idle" /\ ~hist.restore_failed)
        => \A k \in 1..Len(plan) :
              Exited(k) => disk[plan[k].package.name] = plan[k].package.raw

\* a unit of an edited package has failed and the raw bytes are back
C1_Witness ==
    /\ NeedsRestore(cx) /\ sig = "idle" /\ pc = "return"
    /\ idx \in 1..Len(plan)
    /\ err # None /\ Unwrap(err).kind = "exec"
    /\ hist.edits[Entry.package.name] = 1
    /\ hist.restores[Entry.package.name] = 1
    /\ ManifestRemoveDevDeps(Entry.package.raw) # Entry.package.raw
    /\ disk[Entry.package.name] = Entry.package.raw

\* C2: when the handler's restoration pass found a backup held and its write
\* succeeded, the process terminates with every manifest holding its
\* original bytes.
C2_InterruptLeavesOriginal ==
    (pc = "exited" /\ sig = "restored" /\ ~hist.restore_failed)
        => \A i \in 1..Len(cx.members) :
              disk[cx.members[i].name] = cx.members[i].raw

\* C3: a failed invocation is the last invocation of the run.
C3_FailFast == \A i \in 1..Len(log) : Failed(i) => i = Len(log)

\* the second invocation failed while a later package was still planned
C3_Witness ==
    /\ pc = "exited" /\ sig = "idle"
    /\ Len(log) >= 2 /\ Failed(Len(log))
    /\ idx < Len(plan)
    /\ progress.count < progress.total

C5_CountEqualsTotal ==
    pc \in {"return", "exited"}
        => /\ progress.count = progress.total
           /\ Len(log) = progress.count

\* a run over two packages in powerset mode that made more than four invocations
C5_Witness ==
    /\ pc = "exited" /\ cx.feature_powerset /\ Len(plan) = 2
    /\ progress.count > 4 /\ progress.count = progress.total

\* what the claim says a package of this kind adds to progress.total
Amount(kind) ==
    LET extras == AsUsize(~cx.exclude_no_default_features)
                    + AsUsize(~cx.exclude_all_features)
    IN  IF kind.tag = "Nomal" THEN 1
        ELSE IF kind.tag = "Each" THEN Len(kind.features) + extras
        ELSE IF kind.tag = "Powerset" THEN Len(kind.combos) - 1 + extras
        ELSE 0

RECURSIVE SumAmounts(_)
SumAmounts(list) ==
    IF list = <<>> THEN 0 ELSE Amount(Head(list).kind) + SumAmounts(Tail(list))

\* C6: progress.total is the sum over the planned packages of 1 for Nomal,
\* 0 for SkipAsPrivate and NoSubcommand, |features| + the two optional units
\* for Each and |combinations| - 1 + the two optional units for Powerset; the
\* first combination of a Powerset is the empty one and no variant unit is
\* run with an empty feature list.
C6_TotalPerKind ==
    pc # "plan" =>
        /\ progress.total = SumAmounts(plan)
        /\ \A k \in 1..Len(plan) :
              plan[k].kind.tag = "Powerset" => Head(plan[k].kind.combos) = <<>>
        /\ \A i \in 1..Len(log) :
              log[i].stage = "variants" => log[i].line.features # <<>>

\* a Powerset package with a depth bound next to a skipped private package
C6_Witness ==
    /\ pc = "exited" /\ Len(plan) = 2
    /\ plan[1].kind.tag = "SkipAsPrivate"
    /\ plan[2].kind.tag = "Powerset" /\ Len(plan[2].kind.combos) = 4
    /\ cx.depth = Some(1) /\ cx.exclude_all_features
    /\ progress.total = 4

\* the units the claim says a package yields, in order
ExpectedUnits(kind) ==
    LET vs == Variants(kind)
    IN  IF kind.tag = "Nomal" THEN <<[stage |-> "normal", features |-> <<>>]>>
        ELSE IF kind.tag \in {"Each", "Powerset"}
        THEN (IF cx.exclude_no_default_features THEN <<>>
              ELSE <<[stage |-> "ndf", features |-> <<>>]>>)
             \o [i \in 1..Len(vs) |-> [stage |-> "variants", features |-> vs[i]]]
             \o (IF cx.exclude_all_features THEN <<>>
                 ELSE <<[stage |-> "all", features |-> <<>>]>>)
        ELSE <<>>

\* the invocations made for the package named n, in the order they were made
UnitsOf(n) ==
    LET mine(e) == e.package = n
        es == SelectSeq(log, mine)
    IN  [i \in 1..Len(es) |-> [stage |-> es[i].stage, features |-> es[i].line.features]]

\* C7: the invocations of an Each or Powerset package are, in order, a
\* prefix of: the no-default-features unit (unless excluded), one unit per
\* variant in the enumerator's order, the all-features unit (unless
\* excluded); they are all of them once exec_on_package has returned Ok.
C7_UnitOrder ==
    \A k \in 1..Len(plan) :
        plan[k].kind.tag \in {"Each", "Powerset"} =>
            LET got == UnitsOf(plan[k].package.name)
                want == ExpectedUnits(plan[k].kind)
            IN  /\ IsPrefix(got, want)
                /\ (k < idx /\ pc # "plan") => got = want

\* a powerset package ran its five units, the all-features unit last
C7_Witness ==
    /\ Len(plan) >= 1 /\ idx > 1
    /\ plan[1].kind.tag = "Powerset"
    /\ Len(UnitsOf(plan[1].package.name)) = 5
    /\ UnitsOf(plan[1].package.name)[1].stage = "ndf"
    /\ UnitsOf(plan[1].package.name)[4].features = <<"a", "b">>
    /\ UnitsOf(plan[1].package.name)[5].stage = "all"

\* C8: in each-feature or powerset mode a package that declares no features,
\* no include list being given and no dependency-derived feature requested,
\* is planned as Nomal.
C8_NoFeaturesIsNomal ==
    \A k \in 1..Len(plan) :
        (/\ cx.each_feature \/ cx.feature_powerset
         /\ plan[k].package.features = <<>>
         /\ cx.include_features = <<>>
         /\ cx.optional_deps = None /\ ~cx.include_deps_features
         /\ plan[k].kind.tag \notin {"SkipAsPrivate", "NoSubcommand"})
            => plan[k].kind.tag = "Nomal"

\* the k-th combination of the full powerset: the elements whose bit is set
\* in k, in input order
RECURSIVE Pick(_, _)
Pick(xs, k) ==
    IF xs = <<>> THEN <<>>
    ELSE (IF k % 2 = 1 THEN <<Head(xs)>> ELSE <<>>) \o Pick(Tail(xs), k \div 2)

Canon(xs) == [k \in 1..(2 ^ Len(xs)) |-> Pick(xs, k - 1)]

Literal16 ==
    << <<>>, <<1>>, <<2>>, <<1, 2>>, <<3>>, <<1, 3>>, <<2, 3>>, <<1, 2, 3>>,
       <<4>>, <<1, 4>>, <<2, 4>>, <<1, 2, 4>>, <<3, 4>>, <<1, 3, 4>>,
       <<2, 3, 4>>, <<1, 2, 3, 4>> >>

\* C9: without a depth bound, after every element the accumulated list is
\* the earlier list followed by its combinations with the element pushed:
\* entry k is the elements selected by the bits of k-1; it has 2^n entries,
\* is the literal sequence for [1,2,3,4] and [[]] for the empty list.
C9_PowersetFull ==
    ps.depth = None /\ ps.acc # <<>> =>
        /\ ps.acc = Canon(PsDone)
        /\ Len(ps.acc) = 2 ^ Len(PsDone)
        /\ PsDone = <<1, 2, 3, 4>> => ps.acc = Literal16
        /\ PsDone = <<>> => ps.acc = <<<<>>>>
        /\ ps.rest = <<>> => powerset(ps.xs, None) = ps.acc

\* the fold over [1,2,3,4] has ended with sixteen combinations
C9_Witness ==
    /\ ps.xs = <<1, 2, 3, 4>> /\ ps.depth = None /\ ps.rest = <<>>
    /\ Len(ps.acc) = 16

\* C10: with depth bound d, after every element the accumulated list is the
\* unbounded powerset of the consumed elements without the combinations
\* longer than d, in the same order.
C10_DepthIsFilter ==
    IsSome(ps.depth) /\ ps.acc # <<>> =>
        LET short(f) == Len(f) <= Unwrap(ps.depth)
        IN  /\ ps.acc = SelectSeq(powerset(PsDone, None), short)
            /\ ps.rest = <<>> => powerset(ps.xs, ps.depth) = ps.acc

\* the fold over [1,2,3,4] with depth 2 has ended with eleven combinations
C10_Witness ==
    /\ ps.xs = <<1, 2, 3, 4>> /\ ps.depth = Some(2) /\ ps.rest = <<>>
    /\ Len(ps.acc) = 11

\* how many entries of the list are the empty combination
Empties(acc) == Cardinality({k \in 1..Len(acc) : acc[k] = <<>>})

\* C11: after every element of the fold, with any depth bound d (0 included)
\* every combination accumulated has at most d elements, and with or without
\* a bound the empty combination is the first entry and occurs once.
C11_BoundedEmptyFirst ==
    /\ IsSome(ps.depth) =>
          \A k \in 1..Len(ps.acc) : Len(ps.acc[k]) <= Unwrap(ps.depth)
    /\ ps.acc # <<>> => ps.acc[1] = <<>> /\ Empties(ps.acc) = 1
    /\ ps.rest = <<>> /\ ps.acc # <<>> =>
          /\ powerset(ps.xs, ps.depth)[1] = <<>>
          /\ Empties(powerset(ps.xs, ps.depth)) = 1

\* the fold over [1,1,2] with depth 0 has ended with the empty combination alone
C11_Witness ==
    /\ ps.xs = <<1, 1, 2>> /\ ps.depth = Some(0) /\ ps.rest = <<>>
    /\ ps.acc = <<<<>>>>

\* C12: no manifest is ever restored twice, and in --no-dev-deps mode, in a
\* run no interruption has reached and in which no restoring write has
\* failed, a package whose guarded scope has been entered has been restored
\* once when close() has returned and still once when exec_on_package has
\* returned, by success or by error.
C12_RestoredOnce ==
    /\ \A n \in NameSet : hist.restores[n] <= 1
    /\ (NeedsRestore(cx) /\ sig = "idle" /\ ~hist.restore_failed) =>
          \A k \in 1..Len(plan) :
              (/\ plan[k].kind.tag # "SkipAsPrivate"
               /\ Exited(k) \/ (k = idx /\ pc = "closed"))
                  => hist.restores[plan[k].package.name] = 1

\* two packages were edited and both scopes have ended after a close()
C12_Witness ==
    /\ NeedsRestore(cx) /\ sig = "idle" /\ err = None
    /\ Len(plan) = 2 /\ idx = 3 /\ pc = "pkg"
    /\ \A k \in 1..2 : /\ hist.edits[plan[k].package.name] = 1
                         /\ hist.restores[plan[k].package.name] = 1

\* the members whose manifest on disk is the edited text, not the raw bytes
EditedOnDisk ==
    {i \in 1..Len(cx.members) :
        /\ disk[cx.members[i].name] # cx.members[i].raw
        /\ disk[cx.members[i].name] = ManifestRemoveDevDeps(cx.members[i].raw)}

\* C13: in --no-dev-deps mode, in every state of a run in which no restoring
\* write has failed, a backup that is held is the backup of the package
\* exec_on_package is at, none is held between two packages, and at most one
\* manifest on disk is in the edited state.
C13_OneEditedAtATime ==
    (NeedsRestore(cx) /\ ~hist.restore_failed) =>
        /\ current # None =>
              /\ idx \in 1..Len(plan)
              /\ Unwrap(current).path = Entry.package.name
        /\ pc = "pkg" => current = None
        /\ Cardinality(EditedOnDisk) <= 1

Edited(n) == ManifestRemoveDevDeps(Raw(n))

\* C14: in --remove-dev-deps mode no backup is ever held and no restoring
\* write is ever made or attempted; every package whose edited manifest has
\* been written holds the edited text from then on, whether the run goes on,
\* ends by success, by a failing unit or by interruption, and every package
\* exec_on_package has returned Ok for has been written.
C14_PermanentNeverRestores ==
    (cx.remove_dev_deps /\ pc # "idle") =>
        /\ current = None
        /\ ~hist.restore_failed
        /\ \A n \in NameSet : hist.restores[n] = 0
        /\ \A k \in 1..Len(plan) :
              LET n == plan[k].package.name
              IN  /\ hist.edits[n] >= 1 => disk[n] = Edited(n)
                  /\ (k < idx /\ plan[k].kind.tag # "SkipAsPrivate")
                        => hist.edits[n] = 1

\* the run has ended on a failing unit of the second package, both manifests
\* without their dev-dependencies
C14_Witness ==
    /\ cx.remove_dev_deps /\ pc = "exited" /\ sig = "idle"
    /\ err # None /\ Unwrap(err).kind = "exec"
    /\ Len(plan) = 2 /\ idx = 2
    /\ \A k \in 1..2 :
          /\ disk[plan[k].package.name] = Edited(plan[k].package.name)
          /\ disk[plan[k].package.name] # plan[k].package.raw

\* the run has returned, no interruption has reached it, and a restoring
\* write made by close() or by the drop of a handle has failed
RestoreFailedAtEnd ==
    pc \in {"return", "exited"} /\ sig = "idle" /\ hist.restore_failed

\* C15 as claimed: when the restoring write of an edited manifest has failed,
\* the error the run fails with is that write's, after a successful package
\* run and during the cleanup after a failed unit alike.
C15_FailsWithRestoreError ==
    (RestoreFailedAtEnd /\ hist.edits[Entry.package.name] = 1)
        => err # None /\ Unwrap(err).kind = "restore"

\* C15: when a restoring write has failed the run fails (exit status 1).
\* After a successful package run the error it fails with is that write's,
\* returned by close(); during the cleanup after a failed unit or a failed
\* manifest write the error it fails with stays that earlier failure's and
\* the failed restore is only reported by the release of the handle.
C15_RestoreFailureFailsRun ==
    RestoreFailedAtEnd =>
        /\ err # None
        /\ pc = "exited" => exit_code = Some(1)
        /\ IF "drop" \in hist.reported
           THEN /\ Unwrap(err).kind \in {"exec", "clean", "write"}
                /\ Unwrap(err).kind \in {"exec", "clean"} => Failed(Len(log))
           ELSE /\ Unwrap(err).kind = "restore"
                /\ Unwrap(err).package = Entry.package.name
                /\ \A i \in 1..Len(log) : ~Failed(i)

\* a unit failed with 101, the restore during the cleanup failed as well, and
\* the run ended with the unit's error
C15_Witness ==
    /\ RestoreFailedAtEnd /\ pc = "exited"
    /\ "drop" \in hist.reported
    /\ Unwrap(err).kind = "exec" /\ Unwrap(err).status = 101
    /\ disk[Entry.package.name] # Entry.package.raw

\* C16: once the write of a package's edited manifest has failed, the run
\* is on its way out with that error (and ends with status 1 unless the
\* interruption handler ends it first): no invocation has been or is made for
\* that package, progress.count counts the invocations of the earlier
\* packages only, and no later package is backed up, written or run.
C16_WriteFailureAborts ==
    \A n \in hist.write_failed :
        /\ err = Some(Error("write", 0, n))
        /\ pc \in {"drop", "return", "exited"}
        /\ idx \in 1..Len(plan) /\ Entry.package.name = n
        /\ UnitsOf(n) = <<>>
        /\ progress.count = Len(log)
        /\ \A i \in 1..Len(log) :
              \E k \in 1..(idx - 1) : plan[k].package.name = log[i].package
        /\ \A k \in (idx + 1)..Len(plan) :
              /\ hist.edits[plan[k].package.name] = 0
              /\ plan[k].package.name \notin hist.write_failed
        /\ (pc = "exited" /\ sig = "idle") => exit_code = Some(1)

\* the write of the first package's manifest failed: the run has ended with
\* none of the planned invocations made and the second package untouched
C16_Witness ==
    /\ pc = "exited" /\ sig = "idle" /\ Len(plan) = 2 /\ idx = 1
    /\ hist.write_failed = {plan[1].package.name}
    /\ plan[1].kind.tag \in {"Each", "Powerset"}
    /\ progress.total >= 3 /\ progress.count = 0
    /\ hist.edits[plan[2].package.name] = 0

\* the child k of target is a table or an inline table: there are entries
\* beneath target.k and target.k is no array of tables
TableLikeChild(raw, k) ==
    /\ \E i \in 1..Len(raw) :
          LET p == Parse(raw)[i].path
          IN  Len(p) >= 3 /\ p[1] = "target" /\ p[2] = k
    /\ ~\E i \in 1..Len(raw) :
          raw[i].t = "aheader" /\ raw[i].path = <<"target", k>>

\* what the claim says is deleted: the top-level dev-dependencies entry, and
\* the dev-dependencies entry directly under a table-like child of target,
\* each with all that is beneath it
Deleted(raw, e) ==
    \/ e.path[1] = KEY
    \/ /\ Len(e.path) >= 3 /\ e.path[1] = "target" /\ e.path[3] = KEY
       /\ TableLikeChild(raw, e.path[2])

Kept(raw) ==
    LET keep(e) == ~Deleted(raw, e)
    IN  DocToString(SelectSeq(Parse(raw), keep))

\* C17: the manifest written by the removal step is the original without
\* the top-level dev-dependencies entry and without the dev-dependencies
\* entry directly under each table-like child of target; every other line
\* is there, unchanged and in the original order.
C17_RemovesExactly ==
    \A i \in 1..Len(cx.members) :
        LET m == cx.members[i]
        IN  /\ ManifestRemoveDevDeps(m.raw) = Kept(m.raw)
            /\ hist.edits[m.name] >= 1 => disk[m.name] = Kept(m.raw)

\* a manifest whose target.u.dev-dependencies and dev-dependencies tables
\* are gone while target.u.dependencies stays
C17_Witness ==
    /\ Len(cx.members) = 1 /\ hist.edits["p1"] = 1
    /\ Raw("p1") = <<Header(<<"package">>), Header(<<"target", "u", KEY>>),
                     Header(<<KEY>>), Header(<<"target", "u", "dependencies">>)>>
    /\ disk["p1"] = <<Header(<<"package">>),
                      Header(<<"target", "u", "dependencies">>)>>

\* the entries of a manifest that hold dev-dependencies without being a
\* table: an array with the string in it, or a key of that name whose value
\* is a string or an array
NonTableOccurrences(raw) ==
    {e \in {Parse(raw)[i] : i \in 1..Len(raw)} :
        /\ e.line.t = "kv" /\ ~e.table_like
        /\ e.line.key = KEY \/ e.line.val = "array"}

\* the entry sits in a table that the removal step deletes
InDeletedTable(raw, e) ==
    /\ Len(e.path) >= 2
    /\ Deleted(raw, [path |-> SubSeq(e.path, 1, Len(e.path) - 1)])

StillThere(raw, e) ==
    \E i \in 1..Len(remove_dev_deps(Parse(raw))) :
        remove_dev_deps(Parse(raw))[i] = e

Wanted ==
    LET all == {cx.members[i].name : i \in 1..Len(cx.members)}
        given == {cx.package[i] : i \in 1..Len(cx.package)}
        excluded == {cx.exclude[i] : i \in 1..Len(cx.exclude)}
    IN  IF cx.workspace THEN all \ excluded
        ELSE IF cx.package # <<>> THEN all \cap given
        ELSE IF cx.current_package = None THEN all
        ELSE {Unwrap(cx.current_package)}

\* the position of the member named n in the workspace listing
ListingIndex(n) == CHOOSE i \in 1..Len(cx.members) : cx.members[i].name = n

\* determine_package_list has returned Ok
Listed == idx >= 1

\* C19: the package list holds exactly the members the selection rule keeps
\* (--workspace: all but the excluded; else -p: the named ones; else no
\* current package: all; else the current package), each once and in the
\* order of the workspace listing, however the -p names were ordered.
C19_SelectionRule ==
    Listed =>
        /\ {plan[k].package.name : k \in 1..Len(plan)} = Wanted
        /\ \A k \in 1..Len(plan) :
              plan[k].package = cx.members[ListingIndex(plan[k].package.name)]
        /\ \A j, k \in 1..Len(plan) :
              j < k => ListingIndex(plan[j].package.name)
                         < ListingIndex(plan[k].package.name)

\* -p p3 -p p1 over three members lists p1 before p3
C19_Witness ==
    /\ Listed /\ ~cx.workspace /\ cx.package = <<"p3", "p1">>
    /\ Len(cx.members) = 3 /\ Len(plan) = 2
    /\ plan[1].package.name = "p1" /\ plan[2].package.name = "p3"

\* a name given with -p matches no workspace member
UnmatchedName == \E i \in 1..Len(cx.package) :
                    ~Contains(Names(cx.members), cx.package[i])

\* nothing has been classified, written or run
NothingDone ==
    /\ plan = <<>> /\ idx = 0
    /\ progress = [total |-> 0, count |-> 0]
    /\ log = <<>>
    /\ \A n \in NameSet : hist.edits[n] = 0
    /\ \A i \in 1..Len(cx.members) : disk[cx.members[i].name] = cx.members[i].raw

\* cx without the excluded names that match no member
WithoutUnknownExcludes ==
    LET known(n) == Contains(Names(cx.members), n)
    IN  [cx EXCEPT !.exclude = SelectSeq(cx.exclude, known)]

\* C20 as claimed: whenever a -p name matches no member, the run has failed
\* with nothing classified, written or run.
C20_UnmatchedNameFails ==
    (pc # "plan" /\ UnmatchedName) =>
        /\ err = Some(Error("package", 0, ""))
        /\ NothingDone

\* C20: when --workspace is not given, a -p name that matches no member
\* makes the run fail (exit status 1) with nothing classified, written or
\* run and progress.total 0; with --workspace the -p names are not looked at
\* and an excluded name that matches no member changes nothing: the package
\* list and progress.total are those of the run without that name.
C20_UnmatchedNameFailsUnlessWorkspace ==
    pc # "plan" =>
        /\ (~cx.workspace /\ UnmatchedName) =>
              /\ err = Some(Error("package", 0, ""))
              /\ NothingDone
              /\ pc \in {"return", "exited"}
              /\ pc = "exited" => exit_code = Some(1)
        /\ cx.workspace =>
              /\ Listed
              /\ ~(err # None /\ Unwrap(err).kind = "package")
              /\ plan = determine_package_list(WithoutUnknownExcludes).list
              /\ progress.total = determine_package_list(WithoutUnknownExcludes).total

\* -p p3 -p zz: the run has ended with status 1 and nothing done
C20_Witness ==
    /\ pc = "exited" /\ ~cx.workspace /\ cx.package = <<"p3", "zz">>
    /\ err = Some(Error("package", 0, "")) /\ exit_code = Some(1)
    /\ NothingDone

\* the combinations the claim lists as contradictory
Contradictory(c) ==
    \/ c.no_dev_deps /\ c.remove_dev_deps
    \/ c.each_feature /\ c.feature_powerset
    \/ /\ ~c.each_feature /\ ~c.feature_powerset
       /\ \/ c.exclude_features # <<>>
          \/ IsSome(c.optional_deps)
          \/ c.exclude_no_default_features
    \/ c.exclude # <<>> /\ ~c.workspace
    \/ /\ c.no_dev_deps \/ c.remove_dev_deps
       /\ \/ c.subcommand \in {Some("test"), Some("bench")}
          \/ HasTargetFlag(c)

\* C21 as claimed: once the arguments of a contradictory combination have
\* been processed, the run has failed with the error of the validation and
\* nothing has been classified, written or run.
C21_ContradictionIsError ==
    (Contradictory(cx) /\ pc # "args") =>
        /\ err = Some(Error("args", 0, ""))
        /\ NothingDone

\* C21: a contradictory combination never reaches planning: nothing is
\* classified, no unit runs and no manifest is written.  It is rejected with
\* the error of the validation (exit status 1) unless argument processing
\* answers with the help text or the version first (no subcommand and no
\* other argument passed through to cargo and no --remove-dev-deps, -h or
\* --help without a subcommand, --version): then it returns without an error.
C21_ContradictionNeverPlanned ==
    (Contradictory(cx) /\ pc # "args") =>
        /\ NothingDone
        /\ IF ArgsAnswers(cx)
           THEN pc = "help" /\ err = None /\ exit_code = None
           ELSE /\ err = Some(Error("args", 0, ""))
                /\ pc \in {"return", "exited"}
                /\ pc = "exited" => exit_code = Some(1)

\* cargo hack check --no-dev-deps --tests over a workspace with
\* dev-dependencies: the run has ended with status 1 and nothing done
C21_Witness ==
    /\ pc = "exited" /\ exit_code = Some(1)
    /\ cx.subcommand = Some("check") /\ cx.no_dev_deps /\ ~cx.remove_dev_deps
    /\ cx.leading = <<"check", "--tests">>
    /\ ~cx.each_feature /\ ~cx.feature_powerset /\ cx.exclude = <<>>
    /\ cx.exclude_features = <<>> /\ cx.optional_deps = None
    /\ ~cx.exclude_no_default_features
    /\ err = Some(Error("args", 0, ""))
    /\ NothingDone

\* the name is in the exclude list or is a constituent member of a group
Banned(f) ==
    \/ Contains(cx.exclude_features, f)
    \/ \E i \in 1..Len(cx.group_features) : Contains(cx.group_features[i].g, f)

NoneBanned(fs) == \A i \in 1..Len(fs) : ~Banned(fs[i])

\* C22: the list the enumerator returns for any member, the features of
\* every Each kind, every combination of every Powerset kind and the
\* --features list of every invocation hold no name of the exclude list and
\* no constituent member of a feature group.
C22_NoExcludedOrGrouped ==
    /\ \A i \in 1..Len(cx.members) : NoneBanned(FeatureList(cx, cx.members[i]))
    /\ \A k \in 1..Len(plan) :
          /\ NoneBanned(plan[k].kind.features)
          /\ \A j \in 1..Len(plan[k].kind.combos) : NoneBanned(plan[k].kind.combos[j])
    /\ \A i \in 1..Len(log) : NoneBanned(log[i].line.features)

\* features a, b, c with optional dependency o and dependency feature d/x,
\* group a,b, o and d/x excluded: the units ran with c and with a,b
C22_Witness ==
    /\ pc = "exited" /\ err = None
    /\ cx.include_features = <<>> /\ cx.exclude_features = <<"o", "d/x">>
    /\ cx.group_features = <<GroupAB>>
    /\ cx.optional_deps = Some(<<>>) /\ cx.include_deps_features
    /\ cx.members[1].features = <<"a", "b", "c">>
    /\ plan[1].kind = Each(<<"c", "a,b">>)
    /\ Len(log) = 4
    /\ log[2].line.features = <<"c">> /\ log[3].line.features = <<"a,b">>

\* how often the name occurs in the list
Occurrences(fs, f) == Cardinality({i \in 1..Len(fs) : fs[i] = f})

\* the flat list a kind was made from: the features of Each, the
\* one-element combinations of Powerset
EnumOutput(kind) ==
    LET single(f) == Len(f) = 1
        singles == SelectSeq(kind.combos, single)
    IN  IF kind.tag = "Each" THEN kind.features
        ELSE [i \in 1..Len(singles) |-> singles[i][1]]

\* C23: for every defined feature group, the synthetic name of the group
\* occurs exactly once in the enumerator's output of every Each and Powerset
\* package, with and without an include list.
C23_GroupNameOnce ==
    \A k \in 1..Len(plan) :
        plan[k].kind.tag \in {"Each", "Powerset"} =>
            \A g \in 1..Len(cx.group_features) :
                Occurrences(EnumOutput(plan[k].kind), cx.group_features[g].s) = 1

NoDup(fs) == \A i, j \in 1..Len(fs) : fs[i] = fs[j] => i = j

\* C24: no name occurs twice in the features of an Each kind, in a
\* combination of a Powerset kind or in the --features list of an
\* invocation.
C24_Deduplicated ==
    /\ \A k \in 1..Len(plan) :
          /\ NoDup(plan[k].kind.features)
          /\ \A j \in 1..Len(plan[k].kind.combos) : NoDup(plan[k].kind.combos[j])
    /\ \A i \in 1..Len(log) : NoDup(log[i].line.features)

\* the kind of the package the invocation was made for
KindOf(e) ==
    plan[CHOOSE k \in 1..Len(plan) : plan[k].package.name = e.package].kind

\* the baseline arguments of a package: the arguments passed through and
\* the path of its manifest
Baseline(e) == cx.leading \o <<"--manifest-path", e.package>>

Without(args, flag) ==
    LET other(a) == a # flag
    IN  SelectSeq(args, other)

\* C25: every invocation made for an Each or Powerset package carries
\* --no-default-features once; a variant unit carries the baseline
\* arguments, that flag and as --features list exactly the features of its
\* own variant; the no-default-features unit carries no --features list; the
\* all-features unit carries the same arguments and --all-features and no
\* --features list.
C25_OwnVariantOnly ==
    \A i \in 1..Len(log) :
        LET e == log[i]
            ndf == "--no-default-features"
        IN  KindOf(e).tag \in {"Each", "Powerset"} =>
                /\ Occurrences(e.line.args, ndf) = 1
                /\ e.stage \in {"ndf", "variants", "all"}
                /\ e.stage = "ndf" =>
                      /\ e.line.features = <<>>
                      /\ Without(e.line.args, ndf) = Without(Baseline(e), ndf)
                /\ e.stage = "variants" =>
                      /\ e.line.features = Variants(KindOf(e))[e.i]
                      /\ Without(e.line.args, ndf) = Without(Baseline(e), ndf)
                /\ e.stage = "all" =>
                      /\ e.line.features = <<>>
                      /\ Without(e.line.args, ndf)
                            = Append(Without(Baseline(e), ndf), "--all-features")

\* cargo hack check --no-default-features --each-feature on a package with
\* the features a, b, c: the third variant ran with c alone and the
\* all-features unit with no --features list
C25_Witness ==
    /\ cx.each_feature /\ cx.no_default_features
    /\ Len(plan) = 1 /\ plan[1].kind = Each(<<"a", "b", "c">>)
    /\ Len(log) = 5
    /\ log[4].stage = "variants" /\ log[4].line.features = <<"c">>
    /\ log[5].stage = "all" /\ log[5].line.features = <<>>
    /\ log[5].line.args = <<"check", "--no-default-features",
                            "--manifest-path", "p1", "--all-features">>

\* C26: a step changes progress.total only while the package list is
\* determined, before any unit has been attempted; a step leaves
\* progress.count as it is or raises it by one, and it raises it exactly
\* when it attempts a unit, the unit that fails (in its build or in its
\* per-run clean step) included.
C26_ProgressSteps ==
    [][/\ progress'.total # progress.total =>
             pc = "plan" /\ log = <<>> /\ progress.count = 0
       /\ progress'.count \in {progress.count, progress.count + 1}
       /\ progress'.count = progress.count + 1 <=> Len(log') = Len(log) + 1
       /\ Len(log') \in {Len(log), Len(log) + 1}]_vars

\* the third of more than three planned units has failed: three are counted
C26_Witness ==
    /\ pc = "exited" /\ sig = "idle"
    /\ Len(log) = 3 /\ Failed(3) /\ log[3].what = "build"
    /\ progress.count = 3 /\ progress.total > 3

\* C27: a planned package is SkipAsPrivate exactly when --ignore-private is
\* given and the package forbids publishing, whatever the subcommand and the
\* feature mode are; for such a package no invocation is ever made, no backup
\* of its manifest is ever held, its manifest is never written or restored
\* and holds its original bytes in every state, under --no-dev-deps and
\* --remove-dev-deps too.
C27_PrivateUntouched ==
    \A k \in 1..Len(plan) :
        LET n == plan[k].package.name
        IN  /\ plan[k].kind.tag = "SkipAsPrivate"
                  <=> (cx.ignore_private /\ ~plan[k].package.publish)
            /\ plan[k].kind.tag = "SkipAsPrivate" =>
                  /\ UnitsOf(n) = <<>>
                  /\ hist.edits[n] = 0 /\ hist.restores[n] = 0
                  /\ n \notin hist.write_failed
                  /\ disk[n] = plan[k].package.raw
                  /\ current # None => Unwrap(current).path # n

\* cargo hack --remove-dev-deps --each-feature --ignore-private has ended:
\* the private first package, with a feature and dev-dependencies, is as it
\* was, the second one has been rewritten
C27_Witness ==
    /\ pc = "exited" /\ err = None /\ sig = "idle"
    /\ cx.ignore_private /\ cx.remove_dev_deps /\ cx.each_feature
    /\ cx.subcommand = None
    /\ Len(plan) = 2
    /\ plan[1].kind.tag = "SkipAsPrivate" /\ plan[1].package.features = <<"a">>
    /\ Edited(plan[1].package.name) # plan[1].package.raw
    /\ disk[plan[1].package.name] = plan[1].package.raw
    /\ plan[2].kind.tag = "NoSubcommand"
    /\ hist.edits[plan[2].package.name] = 1

\* C28: in a run without a subcommand no invocation is ever made and
\* progress.total and progress.count are 0 in every state, whatever the
\* feature mode is; every planned package is NoSubcommand or SkipAsPrivate;
\* no manifest is written twice, and every package that is public or not
\* skipped and that exec_on_package has returned Ok for has had its manifest
\* rewritten once and holds the text without dev-dependencies.
C28_NoSubcommandOnlyRewrites ==
    cx.subcommand = None =>
        /\ cx.remove_dev_deps
        /\ log = <<>>
        /\ progress = [total |-> 0, count |-> 0]
        /\ \A n \in NameSet : hist.edits[n] <= 1
        /\ \A k \in 1..Len(plan) :
              LET n == plan[k].package.name
              IN  /\ plan[k].kind.tag \in {"NoSubcommand", "SkipAsPrivate"}
                  /\ plan[k].package.publish => plan[k].kind.tag = "NoSubcommand"
                  /\ (k < idx /\ plan[k].kind.tag = "NoSubcommand") =>
                        /\ hist.edits[n] = 1
                        /\ disk[n] = Edited(n)

\* cargo hack --remove-dev-deps --feature-powerset over two public packages,
\* the second with two features: the run has ended with status 0, both
\* manifests rewritten and nothing counted
C28_Witness ==
    /\ cx.subcommand = None /\ cx.feature_powerset
    /\ pc = "exited" /\ exit_code = Some(0) /\ sig = "idle"
    /\ Len(plan) = 2
    /\ \A k \in 1..2 :
          /\ plan[k].package.publish
          /\ hist.edits[plan[k].package.name] = 1
          /\ disk[plan[k].package.name] # plan[k].package.raw
    /\ plan[2].package.features = <<"a", "b">>
    /\ progress = [total |-> 0, count |-> 0]

\* C29: in every state progress.count is at most progress.total, also
\* after a unit or a per-run clean step has failed and when the interruption
\* handler has ended the run.
C29_CountAtMostTotal == progress.count <= progress.total

\* the clean step of the last of at least three planned units has failed:
\* the count shown is the total
C29_Witness ==
    /\ pc = "exited" /\ sig = "idle"
    /\ Len(log) >= 3 /\ log[Len(log)].what = "clean" /\ Failed(Len(log))
    /\ progress.count = progress.total

\* the backup of the package named n is registered: the slot holds its path
\* and its original bytes
BackupHeld(n) == current = Some([path |-> n, manifest |-> Raw(n)])

\* C30: in --no-dev-deps mode, in every state of a run in which no restoring
\* write has failed: the edited manifest is written only while the handle is
\* registered, an invocation has been made for a package only after its
\* edited manifest was written, that write having succeeded, and a manifest
\* that is in the edited state on disk has its backup registered.
C30_EditedOnlyWithBackup ==
    (NeedsRestore(cx) /\ ~hist.restore_failed) =>
        /\ pc = "write" => handle = Some("armed")
        /\ \A i \in 1..Len(cx.members) :
              LET n == cx.members[i].name
              IN  /\ UnitsOf(n) # <<>> =>
                        hist.edits[n] = 1 /\ n \notin hist.write_failed
                  /\ (disk[n] = Edited(n) /\ disk[n] # Raw(n)) => BackupHeld(n)

----------------------------------------------------------------------------
(* Specifications *)

Init == RunInit(Contexts) /\ ps = PsIdle

Next ==
    \/ DeterminePackageList
    \/ WorkspaceDone
    \/ SkipPrivate
    \/ SetManifest
    \/ EnterPlain
    \/ WriteManifest
    \/ WriteManifestFails
    \/ ExecCargoOk
    \/ ExecCargoFails
    \/ CargoCleanFails
    \/ ExecActualDone
    \/ Close
    \/ CloseFails
    \/ ScopeEnd
    \/ DropHandle
    \/ MainExit
    \/ Interrupt
    \/ HandlerExit

\* a run of cargo-hack from the entry of exec_on_workspace
Spec == Init /\ [][Next]_vars

PlanInit == RunInit(PlanContexts) /\ ps = PsIdle

PlanNext ==
    \/ DeterminePackageList
    \/ WorkspaceDone
    \/ SkipPrivate
    \/ SetManifest
    \/ EnterPlain
    \/ WriteManifest
    \/ ExecCargoOk
    \/ ExecActualDone
    \/ Close
    \/ ScopeEnd
    \/ MainExit

\* the planner under every feature policy, and the run it plans when no
\* invocation fails and nothing interrupts it
SpecPlan == PlanInit /\ [][PlanNext]_vars

PowersetInit == RunIdle /\ cx = <<>> /\ disk = <<>> /\ PsInit

\* the fold of powerset over every input list and depth
SpecPowerset == PowersetInit /\ [][PowersetStep]_vars

SelectInit == RunInit(SelectContexts) /\ ps = PsIdle

SelectNext ==
    \/ DeterminePackageList
    \/ SkipPrivate
    \/ EnterPlain
    \/ ExecCargoOk
    \/ ExecCargoFails
    \/ ExecActualDone
    \/ DropHandle
    \/ WorkspaceDone
    \/ MainExit

\* the package list under every selection, and the run over it
SpecSelect == SelectInit /\ [][SelectNext]_vars

\* the state the process starts in: the command line is given, the
\* manifests are on disk
ArgsInit ==
    /\ cx \in ArgsContexts
    /\ pc = "args" /\ plan = <<>> /\ idx = 0 /\ pos = At("end", 0)
    /\ progress = [total |-> 0, count |-> 0]
    /\ log = <<>> /\ err = None /\ exit_code = None
    /\ disk = [n \in NameSet |->
                 IF \E i \in 1..Len(cx.members) : cx.members[i].name = n
                 THEN Member(cx, n).raw ELSE <<>>]
    /\ current = None /\ handle = None /\ sig = "idle" /\ hist = HistInit
    /\ ps = PsIdle

ArgsNext ==
    \/ ParseArgs
    \/ DeterminePackageList
    \/ SkipPrivate
    \/ SetManifest
    \/ EnterPlain
    \/ WriteManifest
    \/ ExecCargoOk
    \/ ExecCargoFails
    \/ ExecActualDone
    \/ Close
    \/ ScopeEnd
    \/ DropHandle
    \/ WorkspaceDone
    \/ MainExit

\* a run from the command line on: every combination of the flags
SpecArgs == ArgsInit /\ [][ArgsNext]_vars

EnumInit == RunInit(EnumContexts) /\ ps = PsIdle

EnumNext ==
    \/ DeterminePackageList
    \/ EnterPlain
    \/ ExecCargoOk
    \/ ExecCargoFails
    \/ ExecActualDone
    \/ DropHandle
    \/ WorkspaceDone
    \/ MainExit

\* the enumerator under every feature policy, and the run over its output
SpecEnum == EnumInit /\ [][EnumNext]_vars

ManifestInit == RunInit(ManifestContexts) /\ ps = PsIdle

ManifestNext ==
    \/ DeterminePackageList
    \/ SetManifest
    \/ WriteManifest
    \/ ExecActualDone
    \/ Close
    \/ ScopeEnd
    \/ WorkspaceDone
    \/ MainExit

\* cargo hack --remove-dev-deps over every generated manifest
SpecManifest == ManifestInit /\ [][ManifestNext]_vars

============================================================================

